---- MODULE Spec2Model ----
(***************************************************************************)
(* async-bacnet: the broadcast discovery engine (src/discover.rs), the     *)
(* timeout-bounded datagram transport (src/io.rs) and the single-buffer    *)
(* transaction client (src/client.rs).                                     *)
(*                                                                         *)
(* Time is counted in seconds.  A timer is the number of seconds elapsed   *)
(* inside the wait it guards; Tick advances every running timer by the     *)
(* same amount and never steps over a deadline.                            *)
(***************************************************************************)
EXTENDS Integers, Sequences, FiniteSets, TLC

\* ---------------------------------------------------------------- bounds
\* Seconds one Tick advances the clock by (less when a deadline is nearer).
TickStep == 60
\* The clock reading since the task was spawned saturates here.
MaxClock == 180
\* Capacity of the result channel in the model; mpsc::channel(1000) in the code.
ChanCap == 1
\* Inbound socket events over one discovery run: enough to fill the channel and
\* leave one item waiting in send.
MaxDatagrams == ChanCap + 1

\* Seconds one Tick advances the clock of a transport read or write by.
IoTickStep == 5
\* Operations issued on one Client.
MaxOps == 2
\* Events (datagrams, socket errors) that reach the client's socket.
MaxInbound == 2

\* ------------------------------------------------------ program constants
\* discover.rs:57  Duration::from_secs(5)
SendTimeoutSecs == 5
\* discover.rs:64  Duration::from_secs(120)
DefaultDurationSecs == 120
\* io.rs:29  timeout: Duration::from_secs(5)
IoTimeoutSecs == 5
\* client.rs:15
BUF_SIZE == 1500

Min(a, b) == IF a < b THEN a ELSE b

\* Option<Duration>
None == [tag |-> "None", v |-> 0]
Some(x) == [tag |-> "Some", v |-> x]
\* The `duration` arguments discover is called with.
Durations == {None, Some(60)}
\* Option::unwrap_or
unwrap_or(opt, default) == IF opt.tag = "Some" THEN opt.v ELSE default

\* ------------------------------------------------------- inbound traffic
\* What one recv_from on the broadcast socket can complete with: a socket error,
\* or a datagram from `peer` whose bytes are `frame`.  A frame is described by
\* what DataLink::decode makes of it: not decodable (valid = FALSE), a data link
\* message without NPDU, an NPDU carrying a network-layer message, or an NPDU
\* carrying an APDU of service `svc`.
Frame(valid, npdu, msg, svc, id, vendor) ==
    [valid |-> valid, npdu |-> npdu, msg |-> msg, svc |-> svc, id |-> id, vendor |-> vendor]
NoFrame == Frame(FALSE, FALSE, "none", "none", 0, 0)
Garbage == Frame(FALSE, FALSE, "none", "none", 0, 0)
NoNpduFrame == Frame(TRUE, FALSE, "none", "none", 0, 0)
NetworkMsgFrame == Frame(TRUE, TRUE, "Network", "none", 0, 0)
WhoIsFrame == Frame(TRUE, TRUE, "Apdu", "WhoIs", 0, 0)
IAmFrame(id, vendor) == Frame(TRUE, TRUE, "Apdu", "IAm", id, vendor)

SockErr == [io |-> "err", peer |-> "none", frame |-> NoFrame]
Dgram(peer, frame) == [io |-> "ok", peer |-> peer, frame |-> frame]

SocketEvents ==
    { SockErr,
      Dgram("10.0.0.1", Garbage),
      Dgram("10.0.0.1", NoNpduFrame),
      Dgram("10.0.0.2", NetworkMsgFrame),
      Dgram("10.0.0.2", WhoIsFrame),
      Dgram("10.0.0.1", IAmFrame(1, 10)),
      Dgram("10.0.0.2", IAmFrame(2, 20)) }

IsIAm(e) == e.io = "ok" /\ e.frame.valid /\ e.frame.npdu
            /\ e.frame.msg = "Apdu" /\ e.frame.svc = "IAm"

VARIABLES
    duration,      \* discover's `duration` argument
    dpc,           \* where the caller of discover is: line 42, 58, 64, or returned
    dresult,       \* what discover returned: "none" yet, "Ok" (the receiver) or an Err
    io_open,       \* the broadcast TokioUdpIo exists (socket bound and not dropped)
    io_owner,      \* who holds `io`: "none", "caller" or "task"
    sendElapsed,   \* seconds spent in timeout(send_timeout, send_to)
    probe,         \* how the probe send_to ended: "none", "ok", "ioerr", "timeout"
    chanCreated,   \* mpsc::channel(1000) has been called
    taskpc,        \* the spawned task: "none", "Recv", "SendErr", "SendDev", "Closed"
    exitCause,     \* why the loop ended: "none", "timeout" or "cancel"
    waitElapsed,   \* seconds the task has spent in its current await: the
                   \* timeout(who_is_duration, recv_from), or a send waiting for capacity
    sinceStart,    \* seconds since the task was spawned (saturating at MaxClock)
    sock,          \* socket receive queue: events recv_from has yet to return
    arrivedLog,    \* every event that reached the socket, in order
    recvd,         \* how many of them recv_from has returned to the task
    chan,          \* items buffered in the channel
    pendingItem,   \* the item a blocked sender.send holds
    rx,            \* the Receiver: "none", "held" or "dropped"
    delivered,     \* items the consumer took from the receiver, in order
    afterDrop,     \* receive attempts the task completed after the receiver was dropped
    rxClosed       \* receiver.recv() has returned None to the consumer

VARIABLES
    c_timeout,     \* TokioUdpIo.timeout of the client's transport, in seconds
    c_peer,        \* TokioUdpIo.peer of the client's transport
    cpc,           \* the Client: "idle", or inside io.write ("write") / io.read ("read")
    op,            \* the operation in progress: its kind and invoke id
    ioElapsed,     \* seconds spent in the current transport read or write
    csock,         \* receive queue of the client's socket
    buf,           \* Client.buf: the bytes written so far (the rest of the 1500 is zero)
    nops,          \* operations called on the client so far
    result,        \* what the last finished operation returned
    sentCount,     \* request datagrams sent by the operation in progress (or the last one)
    outstanding,   \* requests the peer has received and not answered: kind and invoke id
    inbound,       \* number of events that have reached the client's socket
    lastIo,        \* the last finished transport call: what happened and what it returned
    checksInvoke   \* whether the codec crate rejects a response with another invoke id

cvars == <<c_timeout, c_peer, cpc, op, ioElapsed, csock, buf, nops, result,
           sentCount, outstanding, inbound, lastIo, checksInvoke>>

dvars == <<duration, dpc, dresult, io_open, io_owner, sendElapsed, probe, chanCreated,
           taskpc, exitCause, waitElapsed, sinceStart, sock, arrivedLog, recvd,
           chan, pendingItem, rx, delivered, afterDrop, rxClosed>>

vars == <<dvars, cvars>>

\* ------------------------------------------------------------- discover
\* discover.rs:64
who_is_duration == unwrap_or(duration, DefaultDurationSecs)

\* A probe send that swallows Elapsed: the timeout arm yields Ok.
ProbeSendResult_TimeoutIgnored(outcome) ==
    CASE outcome = "ok" -> [ok |-> TRUE, kind |-> "none"]
      [] outcome = "ioerr" -> [ok |-> FALSE, kind |-> "Other"]
      [] outcome = "timeout" -> [ok |-> TRUE, kind |-> "none"]

\* discover.rs:58-61: timeout(send_timeout, send_to) mapped to an io::Result.
\* outcome is "ok", "ioerr" (send_to returned Err) or "timeout" (Elapsed).
ProbeSendResult(outcome) ==
    CASE outcome = "ok" -> [ok |-> TRUE, kind |-> "none"]
      [] outcome = "ioerr" -> [ok |-> FALSE, kind |-> "Other"]
      [] outcome = "timeout" -> [ok |-> FALSE, kind |-> "TimedOut"]

\* error.rs:15-19  From<std::io::Error> for Error
ErrorFromIo(kind) == [ok |-> FALSE, variant |-> "Io", kind |-> kind]
\* discover.rs:93  Error::Bacnet(err.into())
ErrorFromCodec == [ok |-> FALSE, variant |-> "Bacnet", kind |-> "Codec"]

\* What discover has returned to its caller: nothing yet, Ok(receiver), or Err(e).
NoResult == [ok |-> FALSE, variant |-> "none", kind |-> "none"]
OkReceiver == [ok |-> TRUE, variant |-> "Receiver", kind |-> "none"]

NoItem == [ok |-> FALSE, variant |-> "none", kind |-> "none", id |-> 0, vendor_id |-> 0, addr |-> "none"]
ErrItem(e) == [ok |-> FALSE, variant |-> e.variant, kind |-> e.kind, id |-> 0, vendor_id |-> 0, addr |-> "none"]
\* A Device built with the broadcast address discover was called with, not `peer`.
Device_BroadcastAddr(id, vendor_id, addr) ==
    [ok |-> TRUE, variant |-> "Device", kind |-> "none", id |-> id, vendor_id |-> vendor_id,
     addr |-> "10.0.0.255"]

\* discover.rs:110-114
Device(id, vendor_id, addr) ==
    [ok |-> TRUE, variant |-> "Device", kind |-> "none", id |-> id, vendor_id |-> vendor_id, addr |-> addr]

\* discover has been called and has not run yet.
DiscoverInit ==
    /\ dpc = "new_broadcast"
    /\ dresult = NoResult
    /\ io_open = FALSE
    /\ io_owner = "none"
    /\ sendElapsed = 0
    /\ probe = "none"
    /\ chanCreated = FALSE
    /\ taskpc = "none"
    /\ exitCause = "none"
    /\ waitElapsed = 0
    /\ sinceStart = 0
    /\ sock = <<>>
    /\ arrivedLog = <<>>
    /\ recvd = 0
    /\ chan = <<>>
    /\ pendingItem = NoItem
    /\ rx = "none"
    /\ delivered = <<>>
    /\ afterDrop = 0
    /\ rxClosed = FALSE

\* The peer a Client is built for, and another endpoint on the network.
PeerAddr == "10.0.0.1"
StrangerAddr == "10.0.0.9"

NoOp == [kind |-> "none", invoke |-> 0]
NoOpResult == [op |-> "none", invoke |-> 0, ok |-> FALSE, variant |-> "none", kind |-> "none",
               data |-> <<>>]
NoIo == [call |-> "none", outcome |-> "none", n |-> 0, errkind |-> "none",
         ok |-> FALSE, kind |-> "none", ret |-> 0]

\* client.rs:29-35 and io.rs:24-31: Client::new(peer) has returned Ok.
ClientInitState ==
    /\ c_timeout = IoTimeoutSecs
    /\ c_peer = PeerAddr
    /\ cpc = "idle"
    /\ op = NoOp
    /\ ioElapsed = 0
    /\ csock = <<>>
    /\ buf = <<>>
    /\ nops = 0
    /\ result = NoOpResult
    /\ sentCount = 0
    /\ outstanding = {}
    /\ inbound = 0
    /\ lastIo = NoIo

Init ==
    /\ duration \in Durations
    /\ DiscoverInit
    /\ ClientInitState
    /\ checksInvoke = FALSE

\* discover.rs:42  TokioUdpIo::new_broadcast(addr).await?  (io.rs:33-57)
NewBroadcast(ok) ==
    /\ dpc = "new_broadcast"
    /\ IF ok
       THEN /\ dpc' = "send_to"
            /\ io_open' = TRUE
            /\ io_owner' = "caller"
            /\ dresult' = dresult
       ELSE /\ dpc' = "returned"
            /\ dresult' = ErrorFromIo("Other")
            /\ UNCHANGED <<io_open, io_owner>>
    /\ UNCHANGED cvars
    /\ UNCHANGED <<rxClosed, duration, sendElapsed, probe, chanCreated, taskpc, exitCause,
                   waitElapsed, sinceStart, sock, arrivedLog, recvd, chan, pendingItem, rx,
                   delivered, afterDrop>>

\* discover.rs:58-61: the probe send_to completes, fails, or the 5 s timeout
\* elapses first; `?` returns the error to the caller, dropping io.
SendProbe(outcome) ==
    /\ dpc = "send_to"
    /\ outcome = "timeout" => sendElapsed >= SendTimeoutSecs
    /\ probe' = outcome
    /\ LET r == ProbeSendResult(outcome) IN
       IF r.ok
       THEN /\ dpc' = "spawn"
            /\ UNCHANGED <<dresult, io_open, io_owner>>
       ELSE /\ dpc' = "returned"
            /\ dresult' = ErrorFromIo(r.kind)
            /\ io_open' = FALSE
            /\ io_owner' = "none"
    /\ sock' = IF ProbeSendResult(outcome).ok THEN sock ELSE <<>>
    /\ UNCHANGED cvars
    /\ UNCHANGED <<rxClosed, duration, sendElapsed, chanCreated, taskpc, exitCause, waitElapsed,
                   sinceStart, arrivedLog, recvd, chan, pendingItem, rx, delivered, afterDrop>>

\* One timer created outside the loop: an iteration resumes the time already spent.
NewRecvTimeout_Carried(elapsed) == elapsed

\* discover.rs:72: every loop iteration builds a new timeout(who_is_duration, ..),
\* so the wait it guards starts with nothing elapsed.
NewRecvTimeout(elapsed) == 0

\* discover.rs:64-68, 124: the channel is created, the task is spawned with io
\* moved into it, and the receiver is returned.
SpawnTask ==
    /\ dpc = "spawn"
    /\ dpc' = "returned"
    /\ dresult' = OkReceiver
    /\ chanCreated' = TRUE
    /\ rx' = "held"
    /\ io_owner' = "task"
    /\ taskpc' = "Recv"
    /\ waitElapsed' = NewRecvTimeout(waitElapsed)
    /\ UNCHANGED cvars
    /\ UNCHANGED <<rxClosed, duration, io_open, sendElapsed, probe, exitCause, sinceStart, sock,
                   arrivedLog, recvd, chan, pendingItem, delivered, afterDrop>>

\* The network: one more event reaches the bound broadcast socket.
Arrive(e) ==
    /\ io_open
    /\ Len(arrivedLog) < MaxDatagrams
    /\ sock' = Append(sock, e)
    /\ arrivedLog' = Append(arrivedLog, e)
    /\ UNCHANGED cvars
    /\ UNCHANGED <<rxClosed, duration, dpc, dresult, io_open, io_owner, sendElapsed, probe,
                   chanCreated, taskpc, exitCause, waitElapsed, sinceStart, recvd, chan,
                   pendingItem, rx, delivered, afterDrop>>

\* recv_from awaited without a timeout around it.
RecvTimedOut_Never(elapsed) == FALSE

\* discover.rs:72-77: Elapsed is returned when the deadline passes with recv_from
\* still pending (tokio polls the inner future first).
RecvTimedOut(elapsed) == elapsed >= who_is_duration

\* discover.rs:90  DataLink::decode(&mut reader, payload)
DataLinkDecode(frame) ==
    IF frame.valid
    THEN [ok |-> TRUE, npdu |-> frame.npdu, network_message |-> frame.msg,
          svc |-> frame.svc, device_id |-> frame.id, vendor_id |-> frame.vendor]
    ELSE [ok |-> FALSE, npdu |-> FALSE, network_message |-> "none",
          svc |-> "none", device_id |-> 0, vendor_id |-> 0]

\* A filter that takes every APDU for an I-Am.
ExtractIAm_AnyApdu(message) ==
    IF message.npdu /\ message.network_message = "Apdu"
    THEN [some |-> TRUE, id |-> message.device_id, vendor_id |-> message.vendor_id]
    ELSE [some |-> FALSE, id |-> 0, vendor_id |-> 0]

\* discover.rs:99-106: Some(iam) only for an NPDU whose message is
\* Apdu(UnconfirmedRequest(IAm)).
ExtractIAm(message) ==
    IF message.npdu /\ message.network_message = "Apdu" /\ message.svc = "IAm"
    THEN [some |-> TRUE, id |-> message.device_id, vendor_id |-> message.vendor_id]
    ELSE [some |-> FALSE, id |-> 0, vendor_id |-> 0]

\* discover.rs:79-120: what one received event puts up for sending, if anything.
ItemFor(e) ==
    IF e.io = "err" THEN ErrItem(ErrorFromIo("Other"))
    ELSE LET m == DataLinkDecode(e.frame) IN
         IF ~m.ok THEN ErrItem(ErrorFromCodec)
         ELSE LET iam == ExtractIAm(m) IN
              IF iam.some THEN Device(iam.id, iam.vendor_id, e.peer) ELSE NoItem

\* An error branch that breaks when its send fails, as the device branch does.
AfterErrSend_BreakOnClosed(sent) == IF sent THEN "continue" ELSE "break"

\* discover.rs:82-83 and 93-94: `let _ = sender.send(Err(..)).await; continue;`
AfterErrSend(sent) == "continue"
\* discover.rs:115-117: `if sender.send(Ok(device)).await.is_err() { break; }`
AfterDeviceSend(sent) == IF sent THEN "continue" ELSE "break"
AfterSend(item, sent) == IF item.ok THEN AfterDeviceSend(sent) ELSE AfterErrSend(sent)

\* A loop whose break leaves the transport alive (held somewhere else as well).
LoopControl_SocketKept(ctl, rest) ==
    IF ctl = "continue"
    THEN /\ taskpc' = "Recv"
         /\ waitElapsed' = NewRecvTimeout(waitElapsed)
         /\ sock' = rest
         /\ UNCHANGED <<exitCause, io_open, io_owner>>
    ELSE /\ taskpc' = "Closed"
         /\ exitCause' = "cancel"
         /\ waitElapsed' = 0
         /\ sock' = rest
         /\ UNCHANGED <<io_open, io_owner>>

\* discover.rs:71, 83, 94, 116, 119, 121-122: the loop goes on to the next
\* receive, or breaks: the task's future completes and io, moved into it, is
\* dropped with whatever its socket still queued.
LoopControl(ctl, rest) ==
    IF ctl = "continue"
    THEN /\ taskpc' = "Recv"
         /\ waitElapsed' = NewRecvTimeout(waitElapsed)
         /\ sock' = rest
         /\ UNCHANGED <<exitCause, io_open, io_owner>>
    ELSE /\ taskpc' = "Closed"
         /\ exitCause' = "cancel"
         /\ waitElapsed' = 0
         /\ io_open' = FALSE
         /\ io_owner' = "none"
         /\ sock' = <<>>

\* A channel without a capacity limit.
HasCapacity_Unbounded(c) == TRUE

\* discover.rs:65  mpsc::channel(1000): a send completes at once while fewer
\* items than the capacity are buffered, and waits otherwise.
HasCapacity(c) == Len(c) < ChanCap

\* discover.rs:72-120: recv_from completes and the iteration runs up to the next
\* await that cannot finish at once (a send on a full channel).
TaskRecv ==
    /\ taskpc = "Recv"
    /\ sock # <<>>
    /\ recvd' = recvd + 1
    /\ afterDrop' = IF rx = "dropped" THEN afterDrop + 1 ELSE afterDrop
    /\ LET e == Head(sock)
           item == ItemFor(e)
       IN  IF item = NoItem
           THEN \* discover.rs:119  None => continue
                /\ LoopControl("continue", Tail(sock))
                /\ UNCHANGED <<chan, pendingItem>>
           ELSE IF rx = "dropped"
           THEN \* the channel is closed: send returns Err at once
                /\ LoopControl(AfterSend(item, FALSE), Tail(sock))
                /\ UNCHANGED <<chan, pendingItem>>
           ELSE IF HasCapacity(chan)
           THEN \* capacity available: the item is queued
                /\ chan' = Append(chan, item)
                /\ LoopControl(AfterSend(item, TRUE), Tail(sock))
                /\ UNCHANGED pendingItem
           ELSE \* channel full, receiver alive: send waits for capacity
                /\ taskpc' = IF item.ok THEN "SendDev" ELSE "SendErr"
                /\ pendingItem' = item
                /\ waitElapsed' = 0
                /\ sock' = Tail(sock)
                /\ UNCHANGED <<exitCause, io_open, io_owner, chan>>
    /\ UNCHANGED cvars
    /\ UNCHANGED <<rxClosed, duration, dpc, dresult, sendElapsed, probe, chanCreated, sinceStart,
                   arrivedLog, rx, delivered>>

\* discover.rs:74-77: the inactivity timeout fires; the loop breaks.
TaskTimeout ==
    /\ taskpc = "Recv"
    /\ sock = <<>>
    /\ RecvTimedOut(waitElapsed)
    /\ taskpc' = "Closed"
    /\ exitCause' = "timeout"
    /\ waitElapsed' = 0
    /\ io_open' = FALSE
    /\ io_owner' = "none"
    /\ sock' = <<>>
    /\ afterDrop' = IF rx = "dropped" THEN afterDrop + 1 ELSE afterDrop
    /\ UNCHANGED cvars
    /\ UNCHANGED <<rxClosed, duration, dpc, dresult, sendElapsed, probe, chanCreated, sinceStart,
                   arrivedLog, recvd, chan, pendingItem, rx, delivered>>

\* discover.rs:82, 93, 115: a send that waited for capacity completes, with Ok
\* once the consumer has taken an item, with Err once the receiver is dropped.
TaskSendResume ==
    /\ taskpc \in {"SendErr", "SendDev"}
    /\ rx = "dropped" \/ HasCapacity(chan)
    /\ LET sent == rx = "held" IN
       /\ chan' = IF sent THEN Append(chan, pendingItem) ELSE chan
       /\ LoopControl(AfterSend(pendingItem, sent), sock)
    /\ pendingItem' = NoItem
    /\ UNCHANGED cvars
    /\ UNCHANGED <<rxClosed, duration, dpc, dresult, sendElapsed, probe, chanCreated, sinceStart,
                   arrivedLog, recvd, rx, delivered, afterDrop>>

\* A sender that outlives the task.
SenderDropped_Never == FALSE

\* discover.rs:65-68, 122: the only Sender is moved into the spawned task and is
\* dropped when the task's future completes.
SenderDropped == taskpc = "Closed"

\* The consumer: receiver.recv().await returns the oldest buffered item, or None
\* once nothing is buffered and the sender has been dropped.
ConsumerRecv ==
    /\ rx = "held"
    /\ IF chan # <<>>
       THEN /\ delivered' = Append(delivered, Head(chan))
            /\ chan' = Tail(chan)
            /\ UNCHANGED rxClosed
       ELSE /\ SenderDropped
            /\ ~rxClosed
            /\ rxClosed' = TRUE
            /\ UNCHANGED <<chan, delivered>>
    /\ UNCHANGED cvars
    /\ UNCHANGED <<duration, dpc, dresult, io_open, io_owner, sendElapsed, probe,
                   chanCreated, taskpc, exitCause, waitElapsed, sinceStart, sock,
                   arrivedLog, recvd, pendingItem, rx, afterDrop>>

\* The consumer drops the receiver: the channel closes and what it buffered is gone.
ConsumerDrop ==
    /\ rx = "held"
    /\ rx' = "dropped"
    /\ chan' = <<>>
    /\ UNCHANGED cvars
    /\ UNCHANGED <<rxClosed, duration, dpc, dresult, io_open, io_owner, sendElapsed, probe,
                   chanCreated, taskpc, exitCause, waitElapsed, sinceStart, sock,
                   arrivedLog, recvd, pendingItem, delivered, afterDrop>>

TaskRunning == taskpc \in {"Recv", "SendErr", "SendDev"}

\* Time passes.  While the probe send is pending it cannot pass the send
\* deadline; while the task waits in recv_from with nothing queued it cannot
\* pass the inactivity deadline (the timeout fires first).
Tick ==
    /\ dpc = "send_to" \/ TaskRunning
    /\ dpc = "send_to" => sendElapsed < SendTimeoutSecs
    /\ taskpc = "Recv" => sock = <<>> /\ waitElapsed < who_is_duration
    /\ LET delta == IF dpc = "send_to" THEN Min(TickStep, SendTimeoutSecs - sendElapsed)
                    ELSE IF taskpc = "Recv" THEN Min(TickStep, who_is_duration - waitElapsed)
                    ELSE TickStep
       IN  /\ sendElapsed' = IF dpc = "send_to" THEN sendElapsed + delta ELSE sendElapsed
           /\ waitElapsed' = IF taskpc = "Recv" THEN waitElapsed + delta
                             ELSE IF TaskRunning THEN Min(waitElapsed + delta, MaxClock)
                             ELSE waitElapsed
           /\ sinceStart' = IF TaskRunning THEN Min(sinceStart + delta, MaxClock) ELSE sinceStart
    /\ UNCHANGED cvars
    /\ UNCHANGED <<rxClosed, duration, dpc, dresult, io_open, io_owner, probe, chanCreated, taskpc,
                   exitCause, sock, arrivedLog, recvd, chan, pendingItem, rx, delivered, afterDrop>>

TaskStep == TaskRecv \/ TaskTimeout \/ TaskSendResume

Next ==
    \/ \E ok \in BOOLEAN : NewBroadcast(ok)
    \/ \E o \in {"ok", "ioerr", "timeout"} : SendProbe(o)
    \/ SpawnTask
    \/ \E e \in SocketEvents : Arrive(e)
    \/ TaskRecv
    \/ TaskTimeout
    \/ TaskSendResume
    \/ ConsumerRecv
    \/ ConsumerDrop
    \/ Tick

Spec == Init /\ [][Next]_vars

\* The runtime polls a task that can make progress, and time passes.
FairSpec == Spec /\ WF_vars(TaskStep) /\ WF_vars(Tick)

\* ---------------------------------------------------- transport and client
\* Bytes on the wire, as far as the client's control flow depends on them:
\* <<type, invoke id, value...>>.  Types 1 and 2 are the ComplexAcks of
\* ReadProperty and ReadPropertyMultiple, 3 is the SimpleAck of WriteProperty,
\* 4 is an Error/Reject/Abort PDU; requests use 11, 12, 13.  Anything else, or
\* fewer than two bytes, does not decode.
AckType(kind) ==
    CASE kind = "read_property" -> 1
      [] kind = "read_property_multiple" -> 2
      [] kind = "write_property" -> 3
OpKinds == {"read_property", "read_property_multiple", "write_property"}
EncodeRequest(kind, invoke) == <<10 + AckType(kind), invoke, 0>>
\* The acknowledgement of a request: for a read, a value that names the request
\* it answers, two bytes long for the first request and one byte long after it.
AckBytes(kind, invoke) ==
    IF kind = "write_property" THEN <<AckType(kind), invoke>>
    ELSE IF invoke = 1 THEN <<AckType(kind), invoke, 20 + invoke, 40 + invoke>>
    ELSE <<AckType(kind), invoke, 20 + invoke>>
\* What the peer may answer a request with: its acknowledgement, a rejection, or
\* bytes that do not decode.
PeerResponses(kind, invoke) == {AckBytes(kind, invoke), <<4, invoke, 1>>, <<9>>}
IsAck(kind, invoke, bytes) ==
    Len(bytes) >= 2 /\ bytes[1] = AckType(kind) /\ bytes[2] = invoke
IoErrKinds == {"ConnectionReset", "PermissionDenied"}
SockEv(io, kind, peer, bytes) == [io |-> io, kind |-> kind, peer |-> peer, bytes |-> bytes]

\* A slice written at the start of the buffer; what lay beyond it stays.
Overwrite(b, new) == new \o SubSeq(b, Len(new) + 1, Len(b))

\* A read whose timeout arm reports a plain I/O error.
TokioUdpIo_read_TimeoutAsOther(outcome, n, kind) ==
    CASE outcome = "ok" -> [ok |-> TRUE, ret |-> n, kind |-> "none"]
      [] outcome = "err" -> [ok |-> FALSE, ret |-> 0, kind |-> kind]
      [] outcome = "elapsed" -> [ok |-> FALSE, ret |-> 0, kind |-> "Other"]

\* io.rs:75-85  TokioUdpIo::read: the match on timeout(self.timeout, recv_from).
\* The sender address recv_from returns is discarded.
TokioUdpIo_read(outcome, n, kind) ==
    CASE outcome = "ok" -> [ok |-> TRUE, ret |-> n, kind |-> "none"]
      [] outcome = "err" -> [ok |-> FALSE, ret |-> 0, kind |-> kind]
      [] outcome = "elapsed" -> [ok |-> FALSE, ret |-> 0, kind |-> "TimedOut"]

\* io.rs:87-97  TokioUdpIo::write: the match on timeout(self.timeout, send_to).
TokioUdpIo_write(outcome, n, kind) ==
    CASE outcome = "ok" -> [ok |-> TRUE, ret |-> n, kind |-> "none"]
      [] outcome = "err" -> [ok |-> FALSE, ret |-> 0, kind |-> kind]
      [] outcome = "elapsed" -> [ok |-> FALSE, ret |-> 0, kind |-> "TimedOut"]

\* A transport whose waits are always the 5 s it was built with.
IoDeadline_Default == IoTimeoutSecs

\* io.rs:76, 88: timeout(self.timeout, ..): the wait a read or write starts with
\* is the transport's timeout field.
IoDeadline == c_timeout

\* io.rs:76, 88: timeout(self.timeout, ..) gives up once self.timeout has elapsed.
IoTimedOut(elapsed) == elapsed >= IoDeadline

\* The codec: bytes to a message, or a decode error.
Decode(bytes) ==
    IF Len(bytes) >= 2 /\ bytes[1] \in 1..4
    THEN [ok |-> TRUE, type |-> bytes[1], invoke |-> bytes[2],
          data |-> SubSeq(bytes, 3, Len(bytes))]
    ELSE [ok |-> FALSE, type |-> 0, invoke |-> 0, data |-> <<>>]

OpResult(kind, invoke, ok, variant, errkind, data) ==
    [op |-> kind, invoke |-> invoke, ok |-> ok, variant |-> variant, kind |-> errkind,
     data |-> data]
\* A transport error that reaches the caller as a successful return.
ErrBacnetIo_ReturnedOk(o, errkind) == OpResult(o.kind, o.invoke, TRUE, "Bacnet.Io", errkind, <<>>)
\* error.rs:21-25 with BacnetError::Io(e): the transport's error, its kind kept.
ErrBacnetIo(o, errkind) == OpResult(o.kind, o.invoke, FALSE, "Bacnet.Io", errkind, <<>>)

\* Bacnet::<op>(&mut self.buf, request) after the read returned n bytes
\* (client.rs:48, 57-60, 67): decode buf[..n] and check it is the expected
\* acknowledgement; `?` turns every failure into Error::Bacnet.
Acknowledge(o, b, n) ==
    LET m == Decode(SubSeq(b, 1, n)) IN
    IF ~m.ok THEN OpResult(o.kind, o.invoke, FALSE, "Bacnet.Codec", "Decode", <<>>)
    ELSE IF m.type = 4 THEN OpResult(o.kind, o.invoke, FALSE, "Bacnet.Codec", "Rejected", <<>>)
    ELSE IF m.type # AckType(o.kind)
         THEN OpResult(o.kind, o.invoke, FALSE, "Bacnet.Codec", "Unexpected", <<>>)
    ELSE IF checksInvoke /\ m.invoke # o.invoke
         THEN OpResult(o.kind, o.invoke, FALSE, "Bacnet.InvokeId", "Mismatch", <<>>)
    ELSE OpResult(o.kind, o.invoke, TRUE, "Ack", "none", m.data)

\* Client::new(peer) has returned Ok; nothing has been requested yet.
ClientInit ==
    /\ duration = None
    /\ DiscoverInit
    /\ ClientInitState
    /\ checksInvoke \in BOOLEAN

\* client.rs:47-69: read_property / read_property_multiple / write_property is
\* called: the request is encoded into self.buf and io.write is entered.
ClientCall(kind) ==
    /\ cpc = "idle"
    /\ nops < MaxOps
    /\ nops' = nops + 1
    /\ LET invoke == nops + 1 IN
       /\ op' = [kind |-> kind, invoke |-> invoke]
       /\ buf' = Overwrite(buf, EncodeRequest(kind, invoke))
    /\ cpc' = "write"
    /\ ioElapsed' = 0
    /\ sentCount' = 0
    /\ UNCHANGED <<c_timeout, c_peer, csock, result, outstanding, inbound, lastIo,
                   checksInvoke>>
    /\ UNCHANGED dvars

\* io.rs:87-97: the send_to of the request completes, fails, or self.timeout
\* elapses first.  On Ok the request is on its way to the peer and io.read is
\* entered; on Err the operation returns it.
IoWrite(outcome, errkind) ==
    /\ cpc = "write"
    /\ outcome = "elapsed" => IoTimedOut(ioElapsed)
    /\ outcome = "err" <=> errkind \in IoErrKinds
    /\ LET req == SubSeq(buf, 1, Len(EncodeRequest(op.kind, op.invoke)))
           r == TokioUdpIo_write(outcome, Len(req), errkind)
       IN  /\ lastIo' = [call |-> "write", outcome |-> outcome, n |-> Len(req),
                         errkind |-> errkind, ok |-> r.ok, kind |-> r.kind, ret |-> r.ret]
           /\ IF r.ok
              THEN /\ cpc' = "read"
                   /\ sentCount' = sentCount + 1
                   /\ outstanding' = outstanding \cup {op}
                   /\ UNCHANGED <<op, result>>
              ELSE /\ cpc' = "idle"
                   /\ result' = ErrBacnetIo(op, r.kind)
                   /\ op' = NoOp
                   /\ UNCHANGED <<sentCount, outstanding>>
    /\ ioElapsed' = 0
    /\ UNCHANGED <<c_timeout, c_peer, csock, buf, nops, inbound, checksInvoke>>
    /\ UNCHANGED dvars

\* A receive that fails on a datagram whose sender is not the peer.
RecvOutcome_PeerChecked(ev) ==
    IF ev.io = "err" THEN "err" ELSE IF ev.peer = PeerAddr THEN "ok" ELSE "err"

\* io.rs:25, 76-78: the socket is bound, not connected; recv_from completes with
\* whatever the socket queued first, and the sender it reports is not looked at.
RecvOutcome(ev) == IF ev.io = "err" THEN "err" ELSE "ok"

\* An operation that is started over when it has failed.
OnOpErr_Retry(res) == "retry"

\* client.rs:49, 58-61, 67: `self.inner.<op>(..).await?` is called once and `?`
\* returns its error to the caller.
OnOpErr(res) == "return"

\* io.rs:75-85 and the rest of the operation: recv_from returns the oldest
\* queued event (a datagram from whatever sender, copied to the start of buf, or
\* a socket error), or self.timeout elapses with nothing queued.
IoRead ==
    /\ cpc = "read"
    /\ csock # <<>> \/ IoTimedOut(ioElapsed)
    /\ LET outcome == IF csock = <<>> THEN "elapsed" ELSE RecvOutcome(Head(csock))
           bytes == IF outcome = "ok" THEN Head(csock).bytes ELSE <<>>
           n == Min(Len(bytes), BUF_SIZE)
           errkind == IF outcome = "err" THEN Head(csock).kind ELSE "none"
           r == TokioUdpIo_read(outcome, n, errkind)
           b == IF outcome = "ok" THEN Overwrite(buf, SubSeq(bytes, 1, n)) ELSE buf
           res == IF r.ok THEN Acknowledge(op, b, r.ret) ELSE ErrBacnetIo(op, r.kind)
       IN  /\ lastIo' = [call |-> "read", outcome |-> outcome, n |-> Len(bytes),
                         errkind |-> errkind, ok |-> r.ok, kind |-> r.kind, ret |-> r.ret]
           /\ IF res.ok \/ OnOpErr(res) = "return"
              THEN /\ buf' = b
                   /\ result' = res
                   /\ cpc' = "idle"
                   /\ op' = NoOp
              ELSE /\ buf' = Overwrite(b, EncodeRequest(op.kind, op.invoke))
                   /\ cpc' = "write"
                   /\ UNCHANGED <<op, result>>
    /\ csock' = IF csock = <<>> THEN csock ELSE Tail(csock)
    /\ ioElapsed' = 0
    /\ UNCHANGED <<c_timeout, c_peer, nops, sentCount, outstanding, inbound, checksInvoke>>
    /\ UNCHANGED dvars

\* The peer answers a request it has received: at once, late, or (by never
\* taking this step) not at all.
PeerRespond(req, bytes) ==
    /\ req \in outstanding
    /\ inbound < MaxInbound
    /\ bytes \in PeerResponses(req.kind, req.invoke)
    /\ csock' = Append(csock, SockEv("ok", "none", PeerAddr, bytes))
    /\ outstanding' = outstanding \ {req}
    /\ inbound' = inbound + 1
    /\ UNCHANGED <<c_timeout, c_peer, cpc, op, ioElapsed, buf, nops, result, sentCount, lastIo,
                   checksInvoke>>
    /\ UNCHANGED dvars

\* Another endpoint sends a datagram to the client's local port, or the socket
\* reports an error.
OtherInbound(ev) ==
    /\ inbound < MaxInbound
    /\ csock' = Append(csock, ev)
    /\ inbound' = inbound + 1
    /\ UNCHANGED <<c_timeout, c_peer, cpc, op, ioElapsed, buf, nops, result, sentCount,
                   outstanding, lastIo, checksInvoke>>
    /\ UNCHANGED dvars
OtherEvents ==
    {SockEv("err", k, "none", <<>>) : k \in IoErrKinds}
    \cup {SockEv("ok", "none", StrangerAddr, <<1, 1, 77>>)}

\* io.rs:67-69  set_timeout(&mut self, duration): no read or write is in flight.
SetTimeout(d) ==
    /\ cpc = "idle"
    /\ d # c_timeout
    /\ c_timeout' = d
    /\ UNCHANGED <<c_peer, cpc, op, ioElapsed, csock, buf, nops, result, sentCount, outstanding,
                   inbound, lastIo, checksInvoke>>
    /\ UNCHANGED dvars
TimeoutChoices == {3, IoTimeoutSecs}

\* Time passes inside a transport call; a wait cannot outlast its deadline, and a
\* read with an event queued completes before time moves on.
IoTick ==
    /\ cpc \in {"write", "read"}
    /\ ioElapsed < IoDeadline
    /\ cpc = "read" => csock = <<>>
    /\ ioElapsed' = ioElapsed + Min(IoTickStep, IoDeadline - ioElapsed)
    /\ UNCHANGED <<c_timeout, c_peer, cpc, op, csock, buf, nops, result, sentCount, outstanding,
                   inbound, lastIo, checksInvoke>>
    /\ UNCHANGED dvars

ClientNext ==
    \/ \E k \in OpKinds : ClientCall(k)
    \/ \E o \in {"ok", "err", "elapsed"}, e \in IoErrKinds \cup {"none"} : IoWrite(o, e)
    \/ IoRead
    \/ \E req \in outstanding : \E b \in PeerResponses(req.kind, req.invoke) :
          PeerRespond(req, b)
    \/ \E ev \in OtherEvents : OtherInbound(ev)
    \/ \E d \in TimeoutChoices : SetTimeout(d)
    \/ IoTick

ClientSpec == ClientInit /\ [][ClientNext]_vars

\* ================================================================ claims
PendSeq == IF pendingItem = NoItem THEN <<>> ELSE <<pendingItem>>
\* Everything the task has produced for a consumer that kept the receiver.
Produced == delivered \o chan \o PendSeq
RecvLog == SubSeq(arrivedLog, 1, recvd)
IsOk(item) == item.ok
\* The record each I-Am datagram of `log` stands for, in the order of `log`.
DevicesOf(log) ==
    LET iams == SelectSeq(log, IsIAm) IN
    [i \in 1..Len(iams) |->
        [ok |-> TRUE, variant |-> "Device", kind |-> "none", id |-> iams[i].frame.id,
         vendor_id |-> iams[i].frame.vendor, addr |-> iams[i].peer]]
Range(f) == {f[i] : i \in DOMAIN f}

C2_EndsWithinOneReceiveAfterDrop ==
    (rx = "dropped" /\ afterDrop >= 1) => taskpc = "Closed"

BlockedOnFullChannel ==
    taskpc \in {"SendErr", "SendDev"} /\ rx = "held" /\ Len(chan) = ChanCap

C5_EndsAfterDuration == TaskRunning => sinceStart <= who_is_duration

\* C6: when building the transport fails, or the probe send fails or times out
\* (after 5 s), discover has returned Err(Io) and there is no channel, receiver or
\* task; a channel or task exists only after a probe send that returned Ok.
C6_NoChannelUnlessProbeSent ==
    /\ (dpc = "returned" /\ probe # "ok") =>
          /\ ~dresult.ok /\ dresult.variant = "Io"
          /\ ~chanCreated /\ rx = "none" /\ taskpc = "none"
          /\ ~io_open
    /\ probe = "timeout" => (sendElapsed = 5 /\ dpc = "returned" /\ dresult.kind = "TimedOut")
    /\ probe = "ioerr" => dpc = "returned"
    /\ (chanCreated \/ rx # "none" \/ taskpc # "none") => probe = "ok"
    /\ dresult.ok => (probe = "ok" /\ chanCreated /\ taskpc # "none")
C6_Witness ==
    /\ dpc = "returned" /\ probe = "timeout"
    /\ dresult = [ok |-> FALSE, variant |-> "Io", kind |-> "TimedOut"]
    /\ ~chanCreated /\ taskpc = "none"
    /\ Len(arrivedLog) > 0

NonIAmDecoded(e) == e.io = "ok" /\ e.frame.valid /\ ~IsIAm(e)
DeviceOfEvent(e) ==
    [ok |-> TRUE, variant |-> "Device", kind |-> "none", id |-> e.frame.id,
     vendor_id |-> e.frame.vendor, addr |-> e.peer]

\* C7: receiving a datagram that decodes but is not an I-Am changes neither the
\* channel nor a waiting send, and leaves the task in its receive with the socket
\* open; an I-Am received after such a datagram is still produced for the consumer.
C7_NonIAmIgnored ==
    [][ /\ (recvd' = recvd + 1 /\ NonIAmDecoded(Head(sock))) =>
              /\ chan' = chan /\ pendingItem' = pendingItem /\ delivered' = delivered
              /\ taskpc' = "Recv" /\ exitCause' = "none" /\ io_open'
        /\ rx' = "held" =>
              \A j \in 1..recvd' :
                  (IsIAm(arrivedLog'[j]) /\ \E i \in 1..(j - 1) : NonIAmDecoded(arrivedLog'[i]))
                      => DeviceOfEvent(arrivedLog'[j]) \in Range(delivered' \o chan' \o PendSeq')
      ]_vars
C7_Witness ==
    /\ taskpc = "Recv" /\ rx = "held"
    /\ \E j \in 1..recvd :
          /\ IsIAm(arrivedLog[j])
          /\ \E i \in 1..(j - 1) : NonIAmDecoded(arrivedLog[i])
          /\ DeviceOfEvent(arrivedLog[j]) \in Range(delivered)

FailedRead(e) == e.io = "err" \/ ~e.frame.valid
ErrItemOfEvent(e) ==
    IF e.io = "err"
    THEN [ok |-> FALSE, variant |-> "Io", kind |-> "Other", id |-> 0, vendor_id |-> 0, addr |-> "none"]
    ELSE [ok |-> FALSE, variant |-> "Bacnet", kind |-> "Codec", id |-> 0, vendor_id |-> 0, addr |-> "none"]

\* C8: a receive that fails, or returns a datagram that does not decode, never
\* ends the loop: the task goes on to its next receive (at once, or after the
\* send of the error has finished waiting), the socket stays open, and while the
\* consumer keeps the receiver exactly one Err item of that error is produced.
C8_ErrorsForwardedLoopContinues ==
    [][ /\ (recvd' = recvd + 1 /\ FailedRead(Head(sock))) =>
              /\ taskpc' \in {"Recv", "SendErr"} /\ exitCause' = "none" /\ io_open'
              /\ rx = "held" =>
                    (delivered' \o chan' \o PendSeq' = Append(Produced, ErrItemOfEvent(Head(sock))))
        /\ (taskpc = "SendErr" /\ taskpc' # "SendErr") =>
              (taskpc' = "Recv" /\ exitCause' = "none" /\ io_open')
      ]_vars
C8_Witness ==
    /\ taskpc = "Recv" /\ io_open
    /\ \E i, j \in DOMAIN delivered :
          /\ i < j
          /\ delivered[i].variant = "Io"
          /\ delivered[j].variant = "Bacnet"
    /\ recvd = MaxDatagrams

\* A transport call returns in this step.
IoReturns == cpc \in {"write", "read"} /\ cpc' # cpc

\* C9: a transport read or write never waits longer than the configured timeout;
\* when the datagram is received or sent in time the call returns its byte count
\* (a read having copied those bytes to the start of the buffer), when the socket
\* operation fails it returns that error with its kind unchanged, and it returns
\* an error of kind TimedOut exactly when the timeout has elapsed first.
C9_TransportBoundedWait ==
    [][ /\ cpc \in {"write", "read"} => ioElapsed <= c_timeout
        /\ IoReturns =>
              /\ lastIo'.call = cpc
              /\ lastIo'.outcome = "ok" =>
                    /\ lastIo'.ok /\ lastIo'.ret = Min(lastIo'.n, BUF_SIZE)
                    /\ cpc = "write" => lastIo'.ret = Len(EncodeRequest(op.kind, op.invoke))
                    /\ cpc = "read" =>
                          /\ csock # <<>> /\ Head(csock).io = "ok"
                          /\ lastIo'.n = Len(Head(csock).bytes)
                          /\ SubSeq(buf', 1, lastIo'.ret) = Head(csock).bytes
              /\ lastIo'.outcome = "err" =>
                    /\ ~lastIo'.ok /\ lastIo'.kind = lastIo'.errkind
                    /\ lastIo'.kind \in IoErrKinds
                    /\ cpc = "read" => (csock # <<>> /\ lastIo'.kind = Head(csock).kind)
              /\ lastIo'.outcome = "elapsed" =>
                    /\ ~lastIo'.ok /\ lastIo'.kind = "TimedOut"
                    /\ ioElapsed = c_timeout
                    /\ cpc = "read" => csock = <<>>
              /\ lastIo'.kind = "TimedOut" => lastIo'.outcome = "elapsed"
              /\ lastIo'.outcome \in {"ok", "err", "elapsed"}
      ]_vars
C9_Witness ==
    /\ c_timeout < IoTimeoutSecs
    /\ nops = MaxOps /\ cpc = "idle"
    /\ lastIo.call = "read" /\ lastIo.outcome = "elapsed" /\ lastIo.kind = "TimedOut"
    /\ result.variant = "Bacnet.Io" /\ result.kind = "TimedOut"

\* The acknowledgement of the request in progress, if the peer's datagram
\* carrying it has reached the socket (<<>> if not).
OwnAckQueued ==
    LET own == {i \in DOMAIN csock : csock[i].peer = PeerAddr
                                     /\ IsAck(op.kind, op.invoke, csock[i].bytes)}
    IN  IF own = {} THEN <<>> ELSE csock[CHOOSE i \in own : TRUE].bytes
\* Everything queued on the socket is an acknowledgement the peer sent to a
\* request of this client.
OnlyPeerAcks ==
    \A i \in DOMAIN csock :
        /\ csock[i].io = "ok" /\ csock[i].peer = PeerAddr
        /\ \E k \in OpKinds, v \in 1..nops : csock[i].bytes = AckBytes(k, v)

\* C10: an operation whose read sees no datagram within the configured timeout
\* returns a TimedOut error; and an operation that follows one that timed out,
\* and whose own acknowledgement from the peer has reached the socket when its
\* read returns, succeeds with the data of that acknowledgement.
C10_TimeoutThenNextSucceeds ==
    [][ /\ (cpc = "read" /\ cpc' = "idle" /\ csock = <<>>) =>
              (result' = ErrBacnetIo(op, "TimedOut") /\ ioElapsed = c_timeout)
        /\ (cpc = "read" /\ cpc' = "idle" /\ result.kind = "TimedOut"
              /\ OnlyPeerAcks /\ OwnAckQueued # <<>>) =>
              (result'.ok /\ result'.data = Decode(OwnAckQueued).data)
      ]_vars

\* The second of two sequential read_property calls returns from its read, which
\* received a datagram.
SecondReadReturns ==
    /\ cpc = "read" /\ cpc' = "idle"
    /\ op.kind = "read_property" /\ result.op = "read_property"
    /\ csock # <<>> /\ Head(csock).io = "ok"

\* C11: the second of two sequential read_property calls is decoded from exactly
\* the bytes its read received, whatever the buffer still holds beyond them from
\* the first call; and when the first call timed out and only acknowledgements
\* of the peer are queued, the datagram it decodes is the response to the second
\* request, not to the first.
C11_SecondDecodedFromOwnResponse ==
    [][ SecondReadReturns =>
          /\ result' = Acknowledge(op, Head(csock).bytes, Len(Head(csock).bytes))
          /\ (result.kind = "TimedOut" /\ OnlyPeerAcks) =>
                Decode(Head(csock).bytes).invoke = op.invoke
      ]_vars

\* C12: an operation puts at most one request datagram on the wire, exactly one
\* once its write has returned Ok, and takes at most one datagram from the
\* socket, in the step in which it returns; a failed write, a failed or timed-out
\* read and a response that does not decode each end the operation with Err.
C12_OneRequestOneResponse ==
    [][ /\ sentCount' <= 1
        /\ cpc' = "read" => sentCount' = 1
        /\ Len(csock') >= Len(csock) - 1
        /\ Len(csock') < Len(csock) => (cpc = "read" /\ cpc' = "idle")
        /\ (cpc = "write" /\ cpc' # "write") =>
              IF lastIo'.ok
              THEN cpc' = "read" /\ sentCount' = 1
              ELSE cpc' = "idle" /\ ~result'.ok /\ result'.invoke = op.invoke
                   /\ sentCount' = 0
        /\ (cpc = "read" /\ cpc' # "read") =>
              /\ cpc' = "idle" /\ result'.invoke = op.invoke /\ sentCount' = 1
              /\ (csock = <<>> \/ Head(csock).io = "err" \/ ~Decode(Head(csock).bytes).ok)
                    => ~result'.ok
        /\ nops' # nops => (cpc = "idle" /\ sentCount' = 0)
      ]_vars
C12_Witness ==
    /\ nops = MaxOps /\ cpc = "idle" /\ sentCount = 1
    /\ result.variant = "Bacnet.Codec" /\ result.kind = "Decode"
    /\ outstanding # {} /\ csock # <<>>

\* A write_property call returns in this step.
WriteOpReturns == op.kind = "write_property" /\ cpc # "idle" /\ cpc' = "idle"

\* C13: write_property returns Ok only from a read that, after the request was
\* sent, received a datagram within the timeout which decodes to the SimpleAck of
\* WriteProperty; a failed or timed-out send, a failed or timed-out read, bytes
\* that do not decode and a rejection are each returned as Err.
C13_WriteOkOnlyWhenAcked ==
    [][ WriteOpReturns =>
          /\ result'.op = "write_property" /\ result'.invoke = op.invoke
          /\ result'.ok =>
                /\ cpc = "read" /\ sentCount = 1
                /\ csock # <<>> /\ Head(csock).io = "ok"
                /\ ioElapsed <= c_timeout
                /\ Decode(Head(csock).bytes).ok
                /\ Decode(Head(csock).bytes).type = AckType("write_property")
                /\ result'.variant = "Ack" /\ result'.data = <<>>
          /\ cpc = "write" => ~result'.ok
          /\ (cpc = "read" /\ csock = <<>>) => (~result'.ok /\ result'.kind = "TimedOut")
          /\ (cpc = "read" /\ csock # <<>> /\ Head(csock).io = "err") => ~result'.ok
          /\ (cpc = "read" /\ csock # <<>> /\ Head(csock).io = "ok"
                /\ ~Decode(Head(csock).bytes).ok) => (~result'.ok /\ result'.kind = "Decode")
          /\ (cpc = "read" /\ csock # <<>> /\ Head(csock).io = "ok"
                /\ Decode(Head(csock).bytes).ok /\ Decode(Head(csock).bytes).type = 4)
                => (~result'.ok /\ result'.kind = "Rejected")
      ]_vars
C13_Witness ==
    /\ nops = MaxOps /\ cpc = "idle"
    /\ result.op = "write_property" /\ result.ok /\ result.invoke = MaxOps
    /\ lastIo.call = "read" /\ lastIo.ok

\* Where the discovery engine is: 0 Idle, 1 Probe Sent, 2 Collecting, 3 Closed;
\* -1 when discover returned an error without sending the probe.
Phase ==
    IF taskpc = "Closed" THEN 3
    ELSE IF TaskRunning THEN 2
    ELSE IF probe = "ok" THEN 1
    ELSE IF dpc = "returned" THEN -1
    ELSE 0

ProducedExtended ==
    /\ Len(Produced') \in {Len(Produced), Len(Produced) + 1}
    /\ SubSeq(Produced', 1, Len(Produced)) = Produced

ClientButTimeout ==
    <<c_peer, cpc, op, ioElapsed, csock, buf, nops, result, sentCount, outstanding,
      inbound, lastIo, checksInvoke>>

\* C16: a transport starts with a timeout of 5 s; the timeout changes only in a
\* step taken while no read or write is in flight, and that step changes nothing
\* else (peer address, socket queue, buffer); the peer address never changes; a
\* read or write never waits longer than the timeout in force when it started,
\* and gives up by timeout only when exactly that long has passed.
C16_SetTimeoutFrame ==
    /\ c_timeout = IoTimeoutSecs
    /\ [][ /\ c_timeout' # c_timeout =>
                 /\ cpc = "idle"
                 /\ c_timeout' \in TimeoutChoices
                 /\ ClientButTimeout' = ClientButTimeout
           /\ c_peer' = c_peer /\ c_peer = PeerAddr
           /\ cpc \in {"write", "read"} =>
                 /\ c_timeout' = c_timeout
                 /\ ioElapsed <= c_timeout
                 /\ ioElapsed' <= c_timeout
           /\ (IoReturns /\ lastIo'.outcome = "elapsed") => ioElapsed = c_timeout
           /\ (cpc = "idle" /\ cpc' = "write") => ioElapsed' = 0
           /\ (cpc = "write" /\ cpc' = "read") => ioElapsed' = 0
         ]_vars
C16_Witness ==
    /\ c_timeout = 3 /\ c_peer = PeerAddr
    /\ nops = MaxOps /\ cpc = "idle"
    /\ lastIo.call = "write" /\ lastIo.outcome = "elapsed"
    /\ csock # <<>>

\* C17: the broadcast transport exists exactly while somebody owns it, and has
\* one owner: the caller from new_broadcast up to the spawn, the task from the
\* spawn for as long as it is Collecting.  It is released when the task is
\* Closed and when discover returns an error.  Only the caller sends the probe
\* and only before the spawn; only the task receives; ownership passes from the
\* caller to the task in the spawn and is never passed back.
C17_SingleOwnerTransport ==
    [][ /\ io_open' <=> io_owner' \in {"caller", "task"}
        /\ io_owner' = "caller" <=> (dpc' \in {"send_to", "spawn"})
        /\ io_owner' = "task" <=> TaskRunning'
        /\ taskpc' = "Closed" => (~io_open' /\ sock' = <<>>)
        /\ (dpc' = "returned" /\ ~dresult'.ok) => (~io_open' /\ taskpc' = "none")
        /\ taskpc' # "none" => (dpc' = "returned" /\ dresult'.ok)
        /\ <<probe, sendElapsed>>' # <<probe, sendElapsed>> =>
              (io_owner = "caller" /\ taskpc = "none")
        /\ recvd' # recvd => (io_owner = "task" /\ dpc = "returned")
        /\ io_owner' # io_owner =>
              \/ io_owner = "none" /\ io_owner' = "caller" /\ dpc = "new_broadcast"
              \/ io_owner = "caller" /\ io_owner' = "task" /\ dpc = "spawn"
              \/ io_owner = "caller" /\ io_owner' = "none" /\ ~dresult'.ok
              \/ io_owner = "task" /\ io_owner' = "none" /\ taskpc' = "Closed"
      ]_vars
C17_Witness ==
    /\ taskpc = "Closed" /\ exitCause = "cancel"
    /\ ~io_open /\ io_owner = "none"
    /\ dresult.ok /\ rx = "dropped"
    /\ Len(arrivedLog) = MaxDatagrams /\ recvd < MaxDatagrams

\* C18: a read that finds a datagram queued returns it whoever sent it: the read
\* returns Ok with its length, its bytes are at the start of the buffer, and the
\* operation's result is what the codec makes of those bytes for the pending
\* request; this is so for a datagram from an endpoint other than the peer.
C18_ReadAcceptsAnySender ==
    [][ (cpc = "read" /\ cpc' # "read" /\ csock # <<>> /\ Head(csock).io = "ok") =>
          /\ lastIo'.call = "read" /\ lastIo'.ok
          /\ lastIo'.ret = Len(Head(csock).bytes)
          /\ SubSeq(buf', 1, lastIo'.ret) = Head(csock).bytes
          /\ csock' = Tail(csock)
          /\ result' = Acknowledge(op, Head(csock).bytes, Len(Head(csock).bytes))
          /\ Head(csock).peer # c_peer =>
                (result'.ok <=> Decode(Head(csock).bytes).type = AckType(op.kind)
                                /\ (checksInvoke =>
                                      Decode(Head(csock).bytes).invoke = op.invoke))
      ]_vars
C18_Witness ==
    /\ cpc = "idle" /\ lastIo.call = "read" /\ lastIo.ok
    /\ result.ok /\ result.op = "read_property" /\ result.data = <<77>>
    /\ outstanding # {}
====
